---- MODULE Spec2Model ----
(***************************************************************************)
(* Model of the Dockerization agent: repository scan, stack / framework /  *)
(* entrypoint analyzers, clarification builder, safety gate, generators,   *)
(* Dockerfile reviewer and the conversation orchestrator's session state   *)
(* machine.                                                                *)
(*                                                                         *)
(* Representation of Python values:                                        *)
(*   - Optional[str] fields hold the string "None" for Python's None;      *)
(*   - Optional[list] / Optional[dict] values are options: <<>> is None    *)
(*     and <<v>> is the value v;                                           *)
(*   - a dict with insertion order (answered_questions) is a sequence of   *)
(*     [key, value] records with pairwise distinct keys;                   *)
(*   - an exception raised by an operation is recorded in lastCall.        *)
(***************************************************************************)
EXTENDS Integers, Sequences, FiniteSets, TLC

VARIABLES
    hashSeed,               \* the process's string-hash seed: fixes set iteration order
    repo_path,              \* ConversationState.repo_path: "None" | "str" | "Path"
    analysis_completed,
    analysis_confidence,
    analyzer_output,
    clarifications_required,
    pending_questions,
    answered_questions,
    generation_requested,
    generation_completed,
    generator_result,
    generation_error,
    lastCall,               \* the last public operation called and what it returned / raised
    stages,                 \* analyzer stages invoked by the last run_analysis call, in order
    fnIn,                   \* input of the pure function under check (pure-function specifications)
    fnOut                   \* its result

stateVars == <<repo_path, analysis_completed, analysis_confidence, analyzer_output,
               clarifications_required, pending_questions, answered_questions,
               generation_requested, generation_completed, generator_result,
               generation_error>>

vars == <<hashSeed, repo_path, analysis_completed, analysis_confidence,
          analyzer_output, clarifications_required, pending_questions,
          answered_questions, generation_requested, generation_completed,
          generator_result, generation_error, lastCall, stages, fnIn, fnOut>>

\* ----------------------------------------------------------------------
\* Bounds
\* ----------------------------------------------------------------------

\* largest number of files in a modelled repository
MaxFiles == 2

\* largest number of entries the session's answered-questions map may hold
MaxAnswers == 2

\* largest number of entries of an answers map handed to the safety gate
MaxGateAnswers == 2

\* largest number of entrypoint candidates in a stack profile handed to the
\* orchestrator
MaxCandidates == 2

\* ----------------------------------------------------------------------
\* Generic helpers
\* ----------------------------------------------------------------------

NoneStr == "None"

Range(s) == {s[i] : i \in 1..Len(s)}

RECURSIVE Flatten(_)
Flatten(ss) == IF ss = <<>> THEN <<>> ELSE Head(ss) \o Flatten(Tail(ss))

Confidences == {"low", "medium", "high"}

\* ----------------------------------------------------------------------
\* The repository on disk
\* ----------------------------------------------------------------------

\* Relative paths a modelled repository may contain, in the order Python's
\* sorted() puts them (code point order); suffix is Path.suffix, name is
\* Path.name, endsPy is str.endswith(".py"), underApp is
\* str.startswith("app/"), module is file.replace("/", ".").replace(".py", "").
Catalogue ==
    << [path |-> "a.py",             suffix |-> ".py",   name |-> "a.py",
        endsPy |-> TRUE,  underApp |-> FALSE, module |-> "a"],
       [path |-> "app/main.py",      suffix |-> ".py",   name |-> "main.py",
        endsPy |-> TRUE,  underApp |-> TRUE,  module |-> "app.main"],
       [path |-> "pyproject.toml",   suffix |-> ".toml", name |-> "pyproject.toml",
        endsPy |-> FALSE, underApp |-> FALSE, module |-> "pyproject.toml"],
       [path |-> "requirements.txt", suffix |-> ".txt",  name |-> "requirements.txt",
        endsPy |-> FALSE, underApp |-> FALSE, module |-> "requirements.txt"] >>

PathIds == 1..Len(Catalogue)

\* What the analyzers can observe of a Python file's text:
\*   fw     framework names whose "import <t>" / "from <t>" phrasing occurs in the text
\*   rt     runtime-server names whose phrasing occurs in the text
\*   parses whether ast.parse accepts the text
\*   binds  ast.walk order of Name targets assigned a call of the Name FastAPI
\*   assignsApp  some Assign has a Name target spelled exactly "app"
\*   guard  "standard": an If whose test is  __name__ == "__main__"
\*          "literal" : an If whose test holds the string literal
\*                      '__name__ == "__main__"' (no comparison of __name__)
\*          "none"    : no such If
PyContents ==
    << \* 1: a module with no imports and no assignments
       [fw |-> {}, rt |-> {}, parses |-> TRUE, binds |-> <<>>,
        assignsApp |-> FALSE, guard |-> "none"],
       \* 2: from fastapi import FastAPI / import uvicorn / app = FastAPI()
       [fw |-> {"fastapi"}, rt |-> {"uvicorn"}, parses |-> TRUE, binds |-> <<"app">>,
        assignsApp |-> TRUE, guard |-> "none"],
       \* 3: as 2, then  if __name__ == "__main__": uvicorn.run(app)
       [fw |-> {"fastapi"}, rt |-> {"uvicorn"}, parses |-> TRUE, binds |-> <<"app">>,
        assignsApp |-> TRUE, guard |-> "standard"],
       \* 4: from flask import Flask / import gunicorn / app = Flask(__name__)
       [fw |-> {"flask"}, rt |-> {"gunicorn"}, parses |-> TRUE, binds |-> <<>>,
        assignsApp |-> TRUE, guard |-> "none"],
       \* 5: import fastapi / import django / import uvicorn
       [fw |-> {"django", "fastapi"}, rt |-> {"uvicorn"}, parses |-> TRUE, binds |-> <<>>,
        assignsApp |-> FALSE, guard |-> "none"],
       \* 6: from fastapi import FastAPI / import uvicorn / import gunicorn / api = FastAPI()
       [fw |-> {"fastapi"}, rt |-> {"gunicorn", "uvicorn"}, parses |-> TRUE,
        binds |-> <<"api">>, assignsApp |-> FALSE, guard |-> "none"],
       \* 7: import flask, followed by text ast.parse rejects
       [fw |-> {"flask"}, rt |-> {}, parses |-> FALSE, binds |-> <<>>,
        assignsApp |-> FALSE, guard |-> "none"],
       \* 8: from fastapi import FastAPI / app = FastAPI() /
       \*    if mode == '__name__ == "__main__"': ...
       [fw |-> {"fastapi"}, rt |-> {}, parses |-> TRUE, binds |-> <<"app">>,
        assignsApp |-> TRUE, guard |-> "literal"],
       \* 9: from fastapi import FastAPI / import uvicorn / APP = FastAPI()
       [fw |-> {"fastapi"}, rt |-> {"uvicorn"}, parses |-> TRUE, binds |-> <<"APP">>,
        assignsApp |-> FALSE, guard |-> "none"],
       \* 10: from fastapi import FastAPI / import uvicorn / api = FastAPI() / app = None
       [fw |-> {"fastapi"}, rt |-> {"uvicorn"}, parses |-> TRUE, binds |-> <<"api">>,
        assignsApp |-> TRUE, guard |-> "none"] >>

ContentIds == 1..Len(PyContents)

\* Non-Python files are either absent (0) or present (1).
Repos ==
    { r \in [PathIds -> 0..Len(PyContents)] :
        /\ \A p \in PathIds : ~Catalogue[p].endsPy => r[p] \in {0, 1}
        /\ Cardinality({p \in PathIds : r[p] # 0}) <= MaxFiles }

Present(r) == {p \in PathIds : r[p] # 0}

Content(r, p) == PyContents[r[p]]

\* Iteration order of a Python set of strings depends on the process's hash
\* seed; a seed picks, for every set, one of its orders.
HashSeeds == {1, 2}

RECURSIVE SelectIn(_, _)
SelectIn(order, S) ==
    IF order = <<>> THEN <<>>
    ELSE (IF Head(order) \in S THEN <<Head(order)>> ELSE <<>>) \o SelectIn(Tail(order), S)

Reverse(s) == [i \in 1..Len(s) |-> s[Len(s) + 1 - i]]

SetOrder(universe, S, seed) ==
    IF seed = 1 THEN SelectIn(universe, S) ELSE SelectIn(Reverse(universe), S)

\* ----------------------------------------------------------------------
\* Repository scanner
\* ----------------------------------------------------------------------

CONFIG_FILE_NAMES ==
    {"requirements.txt", "pyproject.toml", "package.json", "Dockerfile",
     "docker-compose.yml", ".env"}

\* sorted(files): the catalogue is in code point order
RECURSIVE SortedPaths(_, _)
SortedPaths(r, p) ==
    IF p > Len(Catalogue) THEN <<>>
    ELSE (IF r[p] # 0 THEN <<Catalogue[p].path>> ELSE <<>>) \o SortedPaths(r, p + 1)

PathId(path) == CHOOSE p \in PathIds : Catalogue[p].path = path

scan_repository(r) ==
    LET files == SortedPaths(r, 1)
        sufs  == {Catalogue[p].suffix : p \in Present(r)}
    IN  [ total_files     |-> Len(files),
          files           |-> files,
          file_extensions |-> [s \in sufs |->
                                 Cardinality({p \in Present(r) : Catalogue[p].suffix = s})],
          config_files    |-> SelectSeq(files,
                                 LAMBDA f : Catalogue[PathId(f)].name \in CONFIG_FILE_NAMES) ]

\* ----------------------------------------------------------------------
\* Stack detector
\* ----------------------------------------------------------------------

\* PYTHON_DEP_FILES is a set literal; a fixed listing of it, which the hash
\* seed keeps or reverses
PYTHON_DEP_FILES == <<"requirements.txt", "pyproject.toml">>

\* the {file, variable} dicts one file contributes
AppsOfFile(r, file) ==
    LET info == Catalogue[PathId(file)]
        c    == Content(r, PathId(file))
    IN  IF ~info.endsPy THEN <<>>
        ELSE IF ~c.parses THEN <<>>
        ELSE [i \in 1..Len(c.binds) |->
                [kind |-> "dict", file |-> file, variable |-> c.binds[i]]]

detect_fastapi_apps(r, files) ==
    Flatten([i \in 1..Len(files) |-> AppsOfFile(r, files[i])])

\* the sort key (not x["file"].startswith("app/"), x["file"]), compared as
\* Python compares tuples; False < True, strings by code point
KeyLess(a, b) ==
    LET na == ~Catalogue[PathId(a.file)].underApp
        nb == ~Catalogue[PathId(b.file)].underApp
    IN  \/ (~na /\ nb)
        \/ (na = nb /\ PathId(a.file) < PathId(b.file))

\* stable insertion of x into a sorted sequence
RECURSIVE InsertSorted(_, _)
InsertSorted(x, s) ==
    IF s = <<>> THEN <<x>>
    ELSE IF KeyLess(x, Head(s)) THEN <<x>> \o s
    ELSE <<Head(s)>> \o InsertSorted(x, Tail(s))

\* sorted(): stable
RECURSIVE SortApps(_)
SortApps(s) ==
    IF s = <<>> THEN <<>>
    ELSE InsertSorted(s[Len(s)], SortApps(SubSeq(s, 1, Len(s) - 1)))

\* first dep_file of the set, in its iteration order, that is in files
FirstDepFile(files, seed) ==
    LET order == SetOrder(PYTHON_DEP_FILES, Range(PYTHON_DEP_FILES), seed)
        hits  == SelectSeq(order, LAMBDA d : d \in Range(files))
    IN  IF hits = <<>> THEN NoneStr ELSE Head(hits)

\* mutant: any scanned file makes the repository a Python project
detect_python_stack_any_file(r, scan_data, seed) ==
    LET files == scan_data.files
        dep   == FirstDepFile(files, seed)
        apps  == detect_fastapi_apps(r, files)
    IN  IF files = <<>>
        THEN [ is_python_project     |-> FALSE,
               confidence            |-> "low",
               dependency_management |-> NoneStr,
               entrypoint_candidates |-> <<>>,
               notes                 |-> <<"No Python source files detected.">> ]
        ELSE [ is_python_project     |-> TRUE,
               confidence            |-> IF apps # <<>> \/ dep # NoneStr
                                          THEN "high" ELSE "medium",
               dependency_management |-> dep,
               entrypoint_candidates |-> IF apps # <<>> THEN SortApps(apps) ELSE <<>>,
               notes                 |-> <<>> ]

\* mutant: only a dependency manifest raises the confidence to high
detect_python_stack_manifest_only(r, scan_data, seed) ==
    LET files == scan_data.files
        dep   == FirstDepFile(files, seed)
        apps  == detect_fastapi_apps(r, files)
    IN  IF ".py" \notin DOMAIN scan_data.file_extensions
        THEN [ is_python_project     |-> FALSE,
               confidence            |-> "low",
               dependency_management |-> NoneStr,
               entrypoint_candidates |-> <<>>,
               notes                 |-> <<"No Python source files detected.">> ]
        ELSE [ is_python_project     |-> TRUE,
               confidence            |-> IF dep # NoneStr THEN "high" ELSE "medium",
               dependency_management |-> dep,
               entrypoint_candidates |-> IF apps # <<>> THEN SortApps(apps) ELSE <<>>,
               notes                 |->
                   (IF dep = NoneStr
                    THEN <<"No standard Python dependency file found (requirements.txt / pyproject.toml).">>
                    ELSE <<>>)
                   \o (IF apps = <<>> THEN <<"No FastAPI app instantiation found.">>
                       ELSE <<>>) ]

detect_python_stack(r, scan_data, seed) ==
    LET files == scan_data.files
        dep   == FirstDepFile(files, seed)
        apps  == detect_fastapi_apps(r, files)
    IN  IF ".py" \notin DOMAIN scan_data.file_extensions
        THEN [ is_python_project     |-> FALSE,
               confidence            |-> "low",
               dependency_management |-> NoneStr,
               entrypoint_candidates |-> <<>>,
               notes                 |-> <<"No Python source files detected.">> ]
        ELSE [ is_python_project     |-> TRUE,
               confidence            |-> IF apps # <<>> \/ dep # NoneStr
                                          THEN "high" ELSE "medium",
               dependency_management |-> dep,
               entrypoint_candidates |-> IF apps # <<>> THEN SortApps(apps) ELSE <<>>,
               notes                 |->
                   (IF dep = NoneStr
                    THEN <<"No standard Python dependency file found (requirements.txt / pyproject.toml).">>
                    ELSE <<>>)
                   \o (IF apps = <<>> THEN <<"No FastAPI app instantiation found.">>
                       ELSE <<>>) ]

\* ----------------------------------------------------------------------
\* Framework detector
\* ----------------------------------------------------------------------

\* dict literals: keys in insertion order
FRAMEWORK_IMPORTS == <<"fastapi", "django", "flask">>

RUNTIME_IMPORTS == <<"uvicorn", "gunicorn">>

DEFAULT_PORTS == [fastapi |-> 8000, flask |-> 5000, django |-> 8000]

\* the names one file appends to found[...], in the dict's order
ImportsOfFile(r, file, names, field) ==
    LET info == Catalogue[PathId(file)]
    IN  IF ~info.endsPy THEN <<>>
        ELSE SelectSeq(names,
                LAMBDA n : n \in (IF field = "fw" THEN Content(r, PathId(file)).fw
                                  ELSE Content(r, PathId(file)).rt))

scan_imports(r, files) ==
    [ frameworks |-> Flatten([i \in 1..Len(files) |->
                        ImportsOfFile(r, files[i], FRAMEWORK_IMPORTS, "fw")]),
      runtimes   |-> Flatten([i \in 1..Len(files) |->
                        ImportsOfFile(r, files[i], RUNTIME_IMPORTS, "rt")]) ]

InterfaceOf(framework) ==
    CASE framework = "fastapi" -> "ASGI"
      [] framework = "django"  -> "ASGI/WSGI"
      [] framework = "flask"   -> "WSGI"
      [] OTHER                 -> NoneStr

FrameworkDefault ==
    [ framework      |-> NoneStr,
      interface      |-> NoneStr,
      runtime_server |-> NoneStr,
      default_port   |-> 0,          \* 0 stands for None
      confidence     |-> "low",
      notes          |-> <<>> ]

\* a diagnostic note that embeds a list: the message and the list's rendering
Note(text, items) == [text |-> text, items |-> items]

\* mutant: with several frameworks detected, the first one is taken
detect_framework_first_wins(r, scan_data, stack_data, seed) ==
    LET detected == SetOrder(FRAMEWORK_IMPORTS,
                             Range(scan_imports(r, scan_data.files).frameworks), seed)
    IN  IF ~stack_data.is_python_project
        THEN [FrameworkDefault EXCEPT !.notes = <<Note("Not a Python project.", <<>>)>>]
        ELSE IF detected = <<>>
        THEN [FrameworkDefault EXCEPT !.notes =
                <<Note("No known Python web framework imports detected.", <<>>)>>]
        ELSE [FrameworkDefault EXCEPT
                !.framework    = detected[1],
                !.confidence   = "medium",
                !.interface    = InterfaceOf(detected[1]),
                !.default_port = DEFAULT_PORTS[detected[1]]]

detect_framework(r, scan_data, stack_data, seed) ==
    LET files   == scan_data.files
        imports == scan_imports(r, files)
        \* list(set(...)): the set's iteration order
        detected_frameworks ==
            SetOrder(FRAMEWORK_IMPORTS, Range(imports.frameworks), seed)
        detected_runtimes ==
            SetOrder(RUNTIME_IMPORTS, Range(imports.runtimes), seed)
        framework == detected_frameworks[1]
        withFw == [FrameworkDefault EXCEPT
                     !.framework    = framework,
                     !.confidence   = "medium",
                     !.interface    = InterfaceOf(framework),
                     !.default_port = DEFAULT_PORTS[framework]]
    IN  IF ~stack_data.is_python_project
        THEN [FrameworkDefault EXCEPT !.notes = <<Note("Not a Python project.", <<>>)>>]
        ELSE IF Len(detected_frameworks) = 1
        THEN IF detected_runtimes # <<>>
             THEN IF Len(detected_runtimes) = 1
                  THEN [withFw EXCEPT !.runtime_server = detected_runtimes[1],
                                      !.confidence = "high"]
                  ELSE [withFw EXCEPT !.notes =
                          <<Note("Multiple runtime servers detected.", detected_runtimes)>>]
             ELSE withFw
        ELSE IF Len(detected_frameworks) > 1
        THEN [FrameworkDefault EXCEPT !.notes =
                <<Note("Multiple frameworks detected. Manual review required.",
                       detected_frameworks)>>]
        ELSE [FrameworkDefault EXCEPT !.notes =
                <<Note("No known Python web framework imports detected.", <<>>)>>]

\* ----------------------------------------------------------------------
\* Entrypoint resolver
\* ----------------------------------------------------------------------

\* ast.unparse of the If test: string constants are rendered with repr(),
\* which prefers single quotes
Unparse(guard) ==
    CASE guard = "standard" -> "__name__ == '__main__'"
      [] guard = "literal"  -> "mode == '__name__ == \"__main__\"'"
      [] OTHER              -> ""

\* '__name__ == "__main__"' in condition
ContainsGuardPhrase(condition) ==
    condition \in {"__name__ == \"__main__\"", "mode == '__name__ == \"__main__\"'"}

has_main_guard(r, file) ==
    LET c == Content(r, PathId(file))
    IN  /\ c.parses
        /\ c.guard # "none"
        /\ ContainsGuardPhrase(Unparse(c.guard))

detect_app_object(r, file) ==
    LET c == Content(r, PathId(file))
    IN  c.parses /\ c.assignsApp

\* (repo_path / file).exists()
PathExists(r, file) ==
    \E p \in Present(r) : Catalogue[p].path = file

EntrypointDefault ==
    [ type |-> NoneStr, command |-> <<>>, confidence |-> "low", notes |-> <<>> ]

\* a command token is the sequence of the string pieces it is formatted from
Tok(str) == <<str>>

\* the predicate a loop over the candidates asks of a file
Accepts(r, file, phase) ==
    IF phase = "script" THEN has_main_guard(r, file) ELSE detect_app_object(r, file)

\* outcome of either loop over the candidates: raised when  repo_path / file
\* is evaluated on a candidate that is a dict, else the index of the first
\* candidate the phase's predicate accepts, or 0 when the loop ends without one
RECURSIVE FirstMatch(_, _, _, _)
FirstMatch(r, cands, i, phase) ==
    IF i > Len(cands) THEN [raised |-> FALSE, at |-> 0]
    ELSE IF cands[i].kind # "str" THEN [raised |-> TRUE, at |-> i]
    ELSE IF PathExists(r, cands[i].file) /\ Accepts(r, cands[i].file, phase)
         THEN [raised |-> FALSE, at |-> i]
    ELSE FirstMatch(r, cands, i + 1, phase)

ServiceCommand(interface, file) ==
    LET app_ref == <<Catalogue[PathId(file)].module, ":", "app">>
    IN  IF interface = "ASGI"
        THEN [EntrypointDefault EXCEPT
                !.type = "asgi_service",
                !.command = << <<Tok("uvicorn"), app_ref, Tok("--host"), Tok("0.0.0.0")>> >>,
                !.confidence = "high"]
        ELSE [EntrypointDefault EXCEPT
                !.type = "wsgi_service",
                !.command = << <<Tok("gunicorn"), app_ref>> >>,
                !.confidence = "high"]

\* the result is [exc, value]: exc is "None" when the call returns value
resolve_entrypoint(r, framework_data, stack_data) ==
    LET cands   == stack_data.entrypoint_candidates
        script  == FirstMatch(r, cands, 1, "script")
        service == FirstMatch(r, cands, 1, "service")
        unresolved == [EntrypointDefault EXCEPT
                         !.notes = <<"No resolvable execution entrypoint found.">>]
    IN  IF script.raised
        THEN [exc |-> "TypeError", value |-> EntrypointDefault]
        ELSE IF script.at # 0
        THEN [exc |-> "None",
              value |-> [EntrypointDefault EXCEPT
                           !.type = "script",
                           !.command = << <<Tok("python"), Tok(cands[script.at].file)>> >>,
                           !.confidence = "high"]]
        ELSE IF framework_data.framework # NoneStr /\ framework_data.interface # NoneStr
        THEN IF service.raised
             THEN [exc |-> "TypeError", value |-> EntrypointDefault]
             ELSE IF service.at # 0
             THEN [exc |-> "None",
                   value |-> ServiceCommand(framework_data.interface,
                                            cands[service.at].file)]
             ELSE [exc |-> "None", value |-> unresolved]
        ELSE [exc |-> "None", value |-> unresolved]

\* ----------------------------------------------------------------------
\* Analyzer output as the consumers read it
\* ----------------------------------------------------------------------

\* dict.get on a missing key: the empty analyzer output {} reads as None
\* everywhere (None is falsy: is_python_project reads FALSE)
MissingOutput ==
    [ repository   |-> [total_files |-> 0, files |-> <<>>,
                        file_extensions |-> <<>>, config_files |-> <<>>],
      python_stack |-> [is_python_project |-> FALSE, confidence |-> NoneStr,
                        dependency_management |-> NoneStr,
                        entrypoint_candidates |-> <<>>, notes |-> <<>>],
      framework    |-> [framework |-> NoneStr, interface |-> NoneStr,
                        runtime_server |-> NoneStr, default_port |-> 0,
                        confidence |-> NoneStr, notes |-> <<>>],
      entrypoint   |-> [type |-> NoneStr, command |-> <<>>,
                        confidence |-> NoneStr, notes |-> <<>>] ]

\* self.state.analyzer_output or {}
OrEmpty(output) == IF output = <<>> THEN MissingOutput ELSE output[1]

\* truthiness of an Optional[str] and of an Optional[list]
TruthyStr(v) == v # NoneStr /\ v # ""

TruthyList(opt) == opt # <<>> /\ opt[1] # <<>>

\* ----------------------------------------------------------------------
\* Clarification builder
\* ----------------------------------------------------------------------

\* mutant: every candidate is offered, with or without a bound symbol
build_clarification_questions_every_candidate(ao) ==
    LET candidates == ao.python_stack.entrypoint_candidates
        options == [i \in 1..Len(candidates) |->
                      <<candidates[i].file, ":", candidates[i].variable>>]
    IN  IF ao.entrypoint.confidence # "high" /\ candidates # <<>> /\ options # <<>>
        THEN << [ id       |-> "entrypoint_selection",
                  type     |-> "selection",
                  question |-> "Multiple possible FastAPI application entrypoints were detected. Which one should be used as the production entrypoint?",
                  options  |-> options ] >>
        ELSE <<>>

build_clarification_questions(ao) ==
    LET candidates == ao.python_stack.entrypoint_candidates
        \* "file" in c and "variable" in c
        both    == SelectSeq(candidates, LAMBDA c : c.kind = "dict")
        options == [i \in 1..Len(both) |-> <<both[i].file, ":", both[i].variable>>]
    IN  IF ao.entrypoint.confidence # "high" /\ candidates # <<>> /\ options # <<>>
        THEN << [ id       |-> "entrypoint_selection",
                  type     |-> "selection",
                  question |-> "Multiple possible FastAPI application entrypoints were detected. Which one should be used as the production entrypoint?",
                  options  |-> options ] >>
        ELSE <<>>

\* ----------------------------------------------------------------------
\* Safety gate
\* ----------------------------------------------------------------------

\* a reason is the sequence of the string pieces it is formatted from
Reason(text) == <<text>>

NoAnswerReason(key) == <<"Clarification '", key, "' has no answer.">>

When(cond, reason) == IF cond THEN <<reason>> ELSE <<>>

\* the reasons list as the checklist builds it; answers is an option:
\* <<>> is None, <<d>> is the dict d
GateReasons(ao, answers) ==
    LET python_stack == ao.python_stack
        framework    == ao.framework
        entrypoint   == ao.entrypoint
        items        == IF answers = <<>> THEN <<>> ELSE answers[1]
    IN     When(~python_stack.is_python_project,
                Reason("Repository is not a confirmed Python project."))
        \o When(python_stack.confidence # "high",
                Reason("Python stack confidence is not high."))
        \o When(~TruthyStr(python_stack.dependency_management),
                Reason("Python dependency management is unknown."))
        \o When(framework.confidence # "high",
                Reason("Framework detection confidence is not high."))
        \o When(~TruthyStr(framework.framework),
                Reason("Application framework is not detected."))
        \o When(~TruthyStr(framework.interface),
                Reason("Application interface (ASGI/WSGI) is not detected."))
        \o When(entrypoint.confidence # "high",
                Reason("Entrypoint resolution confidence is not high."))
        \o When(~TruthyList(entrypoint.command),
                Reason("Entrypoint command is missing."))
        \o When(answers = <<>>,
                Reason("Clarification answers missing."))
        \o Flatten([i \in 1..Len(items) |->
                      When(items[i].value = "", NoAnswerReason(items[i].key))])

\* mutant: the checklist stops at the first failure
evaluate_generation_safety_first_only(ao, answers) ==
    LET reasons == GateReasons(ao, answers)
    IN  [ allowed |-> (Len(reasons) = 0),
          reasons |-> IF reasons = <<>> THEN <<>> ELSE <<Head(reasons)>> ]

\* mutant: the three confidence checks are left out
evaluate_generation_safety_no_confidence(ao, answers) ==
    LET reasons == SelectSeq(GateReasons(ao, answers),
                      LAMBDA reason : reason \notin
                          { Reason("Python stack confidence is not high."),
                            Reason("Framework detection confidence is not high."),
                            Reason("Entrypoint resolution confidence is not high.") })
    IN  [allowed |-> (Len(reasons) = 0), reasons |-> reasons]

evaluate_generation_safety(ao, answers) ==
    LET reasons == GateReasons(ao, answers)
    IN  [allowed |-> (Len(reasons) = 0), reasons |-> reasons]

\* ----------------------------------------------------------------------
\* Generators and registry
\* ----------------------------------------------------------------------

\* GeneratorResult; dockerfile is an option, refusal_reason is the list of
\* reasons joined by "; " (<<>> is None)
GeneratorResult(dockerfile, confidence, warnings, refused, refusal_reason) ==
    [ dockerfile |-> dockerfile, confidence |-> confidence, warnings |-> warnings,
      refused |-> refused, refusal_reason |-> refusal_reason ]

\* the template's three holes
build_dockerfile(dependency_file, command, port) ==
    [ copy_and_install |-> dependency_file, expose |-> port, cmd_json |-> command ]

Refuse(reason) == GeneratorResult(<<>>, "low", <<>>, TRUE, <<Reason(reason)>>)

FastAPI_can_generate(ao, answers) ==
    /\ evaluate_generation_safety(ao, answers).allowed
    /\ ao.framework.framework = "fastapi"
    /\ ao.framework.interface = "ASGI"

FastAPI_generate(ao, answers) ==
    LET verdict == evaluate_generation_safety(ao, answers)
        dependency_file == ao.python_stack.dependency_management
        command == IF ao.entrypoint.command = <<>> THEN <<>> ELSE ao.entrypoint.command[1]
    IN  IF ~verdict.allowed
        THEN GeneratorResult(<<>>, "low", <<>>, TRUE, verdict.reasons)
        ELSE IF ao.framework.framework # "fastapi" THEN Refuse("Not a FastAPI project")
        ELSE IF ao.framework.interface # "ASGI" THEN Refuse("FastAPI app is not ASGI")
        ELSE IF ~TruthyStr(dependency_file) THEN Refuse("Dependency file not detected")
        ELSE IF command = <<>> THEN Refuse("Entrypoint command missing")
        ELSE GeneratorResult(
                << build_dockerfile(dependency_file, command, ao.framework.default_port) >>,
                "high", <<>>, FALSE, <<>>)

Base_can_generate(ao, answers) ==
    evaluate_generation_safety(ao, answers).allowed

Base_generate(ao, answers) ==
    LET verdict == evaluate_generation_safety(ao, answers)
    IN  IF ~verdict.allowed
        THEN GeneratorResult(<<>>, "low", <<>>, TRUE, verdict.reasons)
        ELSE GeneratorResult(<<>>, "high",
                <<"Generation allowed, but no concrete generator is implemented yet.">>,
                FALSE, <<>>)

\* GeneratorRegistry._generators
RegisteredGenerators == <<"FastAPIDockerfileGenerator">>

CanGenerate(g, ao, answers) ==
    IF g = "FastAPIDockerfileGenerator" THEN FastAPI_can_generate(ao, answers)
    ELSE Base_can_generate(ao, answers)

Generate(g, ao, answers) ==
    IF g = "FastAPIDockerfileGenerator" THEN FastAPI_generate(ao, answers)
    ELSE Base_generate(ao, answers)

\* the first registered generator that accepts, or "None"
RegistrySelect(ao, answers) ==
    LET accepting == SelectSeq(RegisteredGenerators,
                               LAMBDA g : CanGenerate(g, ao, answers))
    IN  IF accepting = <<>> THEN NoneStr ELSE Head(accepting)

\* ----------------------------------------------------------------------
\* Dockerfile reviewer
\* ----------------------------------------------------------------------

\* of the phrases the rules search for, those in the template's fixed text
\* (FROM python:3.11-slim, RUN pip install --no-cache-dir -r, CMD [...])
TemplatePhrases == {"FROM python", "slim", "pip install", "--no-cache-dir", "CMD"}

\* the strings formatted into the template's holes, in text order
HoleStrings(dockerfile) ==
    <<dockerfile.copy_and_install>> \o Flatten(dockerfile.cmd_json)

\* phrase in dockerfile: in the fixed text, inside a hole, or across the
\* fixed text "COPY " and the hole that follows it
Contains(dockerfile, phrase) ==
    \/ phrase \in TemplatePhrases
    \/ phrase \in Range(HoleStrings(dockerfile))
    \/ phrase = "COPY requirements.txt" /\ dockerfile.copy_and_install = "requirements.txt"

Issue(level, message) == [level |-> level, message |-> message]

review_base_image(dockerfile) ==
       When(Contains(dockerfile, "FROM python") /\ ~Contains(dockerfile, "slim"),
            Issue("warning", "Base image is not slim. Consider using python:X.Y-slim for smaller image size."))
    \o When(Contains(dockerfile, ":latest"),
            Issue("warning", "Avoid using 'latest' tag for base images. Pin a specific version."))

review_user_security(dockerfile) ==
    When(~Contains(dockerfile, "USER"),
         Issue("warning", "Container runs as root. Consider adding a non-root USER for security."))

review_dependency_installation(dockerfile) ==
       When(Contains(dockerfile, "pip install") /\ ~Contains(dockerfile, "--no-cache-dir"),
            Issue("warning", "pip install should use --no-cache-dir to reduce image size."))
    \o When(Contains(dockerfile, "requirements.txt")
              /\ ~Contains(dockerfile, "COPY requirements.txt"),
            Issue("error", "requirements.txt is referenced but not copied explicitly before installation."))

review_entrypoint(dockerfile) ==
    When(~Contains(dockerfile, "CMD") /\ ~Contains(dockerfile, "ENTRYPOINT"),
         Issue("error", "No CMD or ENTRYPOINT found. Container will not start."))

\* DockerfileReviewer.review
review(dockerfile) ==
    LET issues == review_base_image(dockerfile) \o review_user_security(dockerfile)
                  \o review_dependency_installation(dockerfile)
                  \o review_entrypoint(dockerfile)
        errors   == SelectSeq(issues, LAMBDA i : i.level = "error")
        warnings == SelectSeq(issues, LAMBDA i : i.level = "warning")
    IN  [ summary |-> [errors |-> errors, warnings |-> warnings],
          issues  |-> issues,
          passed  |-> (Len(errors) = 0) ]

\* ----------------------------------------------------------------------
\* Conversation orchestrator: the session state machine
\* ----------------------------------------------------------------------

\* what a public operation returned or raised; fields an operation does not
\* return hold "None" / <<>>
Call(op, exc, label, status, reason, dockerfile) ==
    [ op |-> op, exc |-> exc, label |-> label, status |-> status,
      reason |-> reason, dockerfile |-> dockerfile ]

Raised(op, exc) == Call(op, exc, NoneStr, NoneStr, <<>>, <<>>)

Returned(op) == Call(op, NoneStr, NoneStr, NoneStr, <<>>, <<>>)

\* ids and answers a caller may submit
AnswerKeys == {"entrypoint_selection", "port"}

AnswerValues == {"", "app/main.py:app"}

AnswerEntries == [key : AnswerKeys, value : AnswerValues]

\* dicts of at most n entries, as insertion-ordered sequences
AnswerMaps(n) ==
    { d \in UNION {[1..k -> AnswerEntries] : k \in 0..n} :
        \A i, j \in 1..Len(d) : i # j => d[i].key # d[j].key }

Keys(d) == {d[i].key : i \in 1..Len(d)}

\* d[key] = value: an existing key keeps its position, a new key is appended
SetItem(d, key, value) ==
    IF key \in Keys(d)
    THEN [i \in 1..Len(d) |-> IF d[i].key = key THEN [key |-> key, value |-> value]
                                ELSE d[i]]
    ELSE Append(d, [key |-> key, value |-> value])

RECURSIVE Merge(_, _)
Merge(d, updates) ==
    IF updates = <<>> THEN d
    ELSE Merge(SetItem(d, Head(updates).key, Head(updates).value), Tail(updates))

\* order.get(v, 0)
ConfRank(v) == CASE v = "medium" -> 1 [] v = "high" -> 2 [] OTHER -> 0

\* mutant: the aggregate is the stack profile's confidence alone
lowest_confidence_first(values) == values[1]

\* min(values, key=...): the first value of least rank
lowest_confidence(values) ==
    LET least == CHOOSE m \in {ConfRank(values[i]) : i \in 1..Len(values)} :
                    \A i \in 1..Len(values) : m <= ConfRank(values[i])
        first == CHOOSE i \in 1..Len(values) :
                    /\ ConfRank(values[i]) = least
                    /\ \A j \in 1..(i - 1) : ConfRank(values[j]) # least
    IN  values[first]

Init ==
    /\ hashSeed \in HashSeeds
    /\ repo_path = NoneStr
    /\ analysis_completed = FALSE
    /\ analysis_confidence = NoneStr
    /\ analyzer_output = <<>>
    /\ clarifications_required = FALSE
    /\ pending_questions = <<>>
    /\ answered_questions = <<>>
    /\ generation_requested = FALSE
    /\ generation_completed = FALSE
    /\ generator_result = <<>>
    /\ generation_error = NoneStr
    /\ lastCall = Returned("__init__")
    /\ stages = <<>>
    /\ fnIn = <<>>
    /\ fnOut = <<>>

\* set_repo_path: the caller passes the path as a str (as annotated) or as a
\* pathlib.Path
SetRepoPath ==
    \E kind \in {"str", "Path"} :
        /\ repo_path' = kind
        /\ lastCall' = Returned("set_repo_path")
        /\ UNCHANGED <<hashSeed, analysis_completed, analysis_confidence,
                       analyzer_output, clarifications_required, pending_questions,
                       answered_questions, generation_requested, generation_completed,
                       generator_result, generation_error, stages, fnIn, fnOut>>

AnalyzerStages ==
    <<"scan_repository", "detect_python_stack", "detect_framework", "resolve_entrypoint">>

\* run_analysis from the scan to the analyzer_output dict, on a repo_path that
\* is a Path: the stage that raised (if any), the stages called, the dict
AnalysisPipeline(r, seed) ==
    LET scan_data  == scan_repository(r)
        stack      == detect_python_stack(r, scan_data, seed)
        framework  == detect_framework(r, scan_data, stack, seed)
        entrypoint == resolve_entrypoint(r, framework, stack)
    IN  [ exc    |-> entrypoint.exc,
          stages |-> AnalyzerStages,
          output |-> [ repository   |-> scan_data,
                       python_stack |-> stack,
                       framework    |-> framework,
                       entrypoint   |-> entrypoint.value ] ]

\* what a run can find: the repository on disk is an input of the call
AnalysisOutcomes ==
    [seed \in HashSeeds |-> {AnalysisPipeline(r, seed) : r \in Repos}]

\* run_analysis, given what the analyzers can find on the repository
RunAnalysisOver(outcomes) ==
    /\ \/ /\ repo_path = NoneStr
          /\ lastCall' = Raised("run_analysis", "RuntimeError")
          /\ stages' = <<>>
          /\ UNCHANGED <<analysis_completed, analysis_confidence, analyzer_output>>
       \/ /\ repo_path = "str"
          \* scan_repository calls directory.iterdir() on the str
          /\ lastCall' = Raised("run_analysis", "AttributeError")
          /\ stages' = <<"scan_repository">>
          /\ UNCHANGED <<analysis_completed, analysis_confidence, analyzer_output>>
       \/ /\ repo_path = "Path"
          /\ \E run \in outcomes :
                /\ stages' = run.stages
                /\ IF run.exc # NoneStr
                   THEN /\ lastCall' = Raised("run_analysis", run.exc)
                        /\ UNCHANGED <<analysis_completed, analysis_confidence,
                                       analyzer_output>>
                   ELSE /\ lastCall' = Returned("run_analysis")
                        /\ analyzer_output' = <<run.output>>
                        /\ analysis_completed' = TRUE
                        /\ analysis_confidence' =
                              lowest_confidence(<<run.output.python_stack.confidence,
                                                  run.output.framework.confidence,
                                                  run.output.entrypoint.confidence>>)
    /\ UNCHANGED <<hashSeed, repo_path, clarifications_required,
                   pending_questions, answered_questions, generation_requested,
                   generation_completed, generator_result, generation_error,
                   fnIn, fnOut>>

\* the repository may change between calls
RunAnalysis == RunAnalysisOver(AnalysisOutcomes[hashSeed])

\* mutant: a session below high confidence is refused without asking
EvaluateNextAction_never_asks ==
    LET label ==
            IF ~analysis_completed THEN "NEEDS_ANALYSIS"
            ELSE IF analysis_confidence # "high" THEN "REFUSED"
            ELSE IF ~generation_requested THEN "READY_FOR_GENERATION"
            ELSE "DONE"
    IN  /\ lastCall' = Call("evaluate_next_action", NoneStr, label, NoneStr, <<>>, <<>>)
        /\ UNCHANGED <<hashSeed, stateVars, stages, fnIn, fnOut>>

EvaluateNextAction ==
    LET questions == build_clarification_questions(OrEmpty(analyzer_output))
        label ==
            IF ~analysis_completed THEN "NEEDS_ANALYSIS"
            ELSE IF analysis_confidence # "high"
            THEN (IF questions # <<>> THEN "NEEDS_CLARIFICATION" ELSE "REFUSED")
            ELSE IF ~generation_requested THEN "READY_FOR_GENERATION"
            ELSE "DONE"
    IN  /\ lastCall' = Call("evaluate_next_action", NoneStr, label, NoneStr, <<>>, <<>>)
        /\ IF label = "NEEDS_CLARIFICATION"
           THEN /\ pending_questions' = questions
                /\ clarifications_required' = TRUE
           ELSE UNCHANGED <<pending_questions, clarifications_required>>
        /\ UNCHANGED <<hashSeed, repo_path, analysis_completed,
                       analysis_confidence, analyzer_output, answered_questions,
                       generation_requested, generation_completed, generator_result,
                       generation_error, stages, fnIn, fnOut>>

\* mutant: any submission clears the pending questions and forces high
SubmitClarificationAnswers_always_clears ==
    \E answers \in AnswerMaps(MaxAnswers) :
        LET merged == Merge(answered_questions, answers)
        IN  /\ Len(merged) <= MaxAnswers
            /\ answered_questions' = merged
            /\ pending_questions' = <<>>
            /\ clarifications_required' = FALSE
            /\ analysis_confidence' = "high"
            /\ lastCall' = Returned("submit_clarification_answers")
            /\ UNCHANGED <<hashSeed, repo_path, analysis_completed,
                           analyzer_output, generation_requested, generation_completed,
                           generator_result, generation_error, stages, fnIn, fnOut>>

SubmitClarificationAnswers ==
    \E answers \in AnswerMaps(MaxAnswers) :
        LET merged       == Merge(answered_questions, answers)
            pending_ids  == {pending_questions[i].id : i \in 1..Len(pending_questions)}
            answered_ids == Keys(merged)
        IN  /\ Len(merged) <= MaxAnswers
            /\ answered_questions' = merged
            /\ IF pending_ids \subseteq answered_ids
               THEN /\ pending_questions' = <<>>
                    /\ clarifications_required' = FALSE
                    /\ analysis_confidence' = "high"
               ELSE UNCHANGED <<pending_questions, clarifications_required,
                                analysis_confidence>>
            /\ lastCall' = Returned("submit_clarification_answers")
            /\ UNCHANGED <<hashSeed, repo_path, analysis_completed,
                           analyzer_output, generation_requested, generation_completed,
                           generator_result, generation_error, stages, fnIn, fnOut>>

\* mutant: the intent is marked before the state is checked
RunGeneration_marks_first ==
    /\ generation_requested' = TRUE
    /\ lastCall' = Raised("run_generation", "RuntimeError")
    /\ ~analysis_completed \/ analysis_confidence # "high"
    /\ UNCHANGED <<hashSeed, repo_path, analysis_completed, analysis_confidence,
                   analyzer_output, clarifications_required, pending_questions,
                   answered_questions, generation_completed, generator_result,
                   generation_error, stages, fnIn, fnOut>>

\* mutant: a generation attempt is never marked as requested
RunGeneration_never_marks ==
    /\ analysis_completed /\ analysis_confidence = "high"
    /\ generation_completed' = TRUE
    /\ generation_error' = "No suitable generator found"
    /\ lastCall' = Call("run_generation", NoneStr, NoneStr, "refused",
                        <<Reason("No suitable generator available for this project")>>,
                        <<>>)
    /\ UNCHANGED <<hashSeed, repo_path, analysis_completed, analysis_confidence,
                   analyzer_output, clarifications_required, pending_questions,
                   answered_questions, generation_requested, generator_result,
                   stages, fnIn, fnOut>>

RunGeneration ==
    LET ao        == OrEmpty(analyzer_output)
        answers   == <<answered_questions>>
        generator == RegistrySelect(ao, answers)
        result    == Generate(generator, ao, answers)
    IN  /\ IF ~analysis_completed \/ analysis_confidence # "high"
           THEN /\ lastCall' = Raised("run_generation", "RuntimeError")
                /\ UNCHANGED <<generation_requested, generation_completed,
                               generator_result, generation_error>>
           ELSE /\ generation_requested' = TRUE
                /\ generation_completed' = TRUE
                /\ IF generator = NoneStr
                   THEN /\ generation_error' = "No suitable generator found"
                        /\ UNCHANGED generator_result
                        /\ lastCall' = Call("run_generation", NoneStr, NoneStr, "refused",
                              <<Reason("No suitable generator available for this project")>>,
                              <<>>)
                   ELSE /\ generator_result' = <<result>>
                        /\ UNCHANGED generation_error
                        /\ lastCall' =
                              IF result.refused
                              THEN Call("run_generation", NoneStr, NoneStr, "refused",
                                        result.refusal_reason, <<>>)
                              ELSE Call("run_generation", NoneStr, NoneStr, "generated",
                                        <<>>, result.dockerfile)
        /\ UNCHANGED <<hashSeed, repo_path, analysis_completed,
                       analysis_confidence, analyzer_output, clarifications_required,
                       pending_questions, answered_questions, stages, fnIn, fnOut>>

Next ==
    \/ SetRepoPath
    \/ RunAnalysis
    \/ EvaluateNextAction
    \/ SubmitClarificationAnswers
    \/ RunGeneration

Spec == Init /\ [][Next]_vars

\* ----------------------------------------------------------------------
\* The analyzers as pure functions of a repository
\* ----------------------------------------------------------------------

SessionIdle ==
    /\ repo_path = NoneStr
    /\ analysis_completed = FALSE
    /\ analysis_confidence = NoneStr
    /\ analyzer_output = <<>>
    /\ clarifications_required = FALSE
    /\ pending_questions = <<>>
    /\ answered_questions = <<>>
    /\ generation_requested = FALSE
    /\ generation_completed = FALSE
    /\ generator_result = <<>>
    /\ generation_error = NoneStr
    /\ lastCall = Returned("__init__")
    /\ stages = <<>>

InitAnalyze ==
    /\ hashSeed \in HashSeeds
    /\ SessionIdle
    /\ fnIn \in Repos
    /\ fnOut = [ stage        |-> 0,
                 python_stack |-> MissingOutput.python_stack,
                 framework    |-> MissingOutput.framework,
                 entrypoint   |-> [exc |-> NoneStr, value |-> MissingOutput.entrypoint] ]

AnalyzeStack ==
    /\ fnOut.stage = 0
    /\ fnOut' = [fnOut EXCEPT
                   !.stage = 1,
                   !.python_stack =
                       detect_python_stack(fnIn, scan_repository(fnIn), hashSeed)]
    /\ UNCHANGED <<hashSeed, stateVars, lastCall, stages, fnIn>>

AnalyzeFramework ==
    /\ fnOut.stage = 1
    /\ fnOut' = [fnOut EXCEPT
                   !.stage = 2,
                   !.framework =
                       detect_framework(fnIn, scan_repository(fnIn),
                                        fnOut.python_stack, hashSeed)]
    /\ UNCHANGED <<hashSeed, stateVars, lastCall, stages, fnIn>>

AnalyzeEntrypoint ==
    /\ fnOut.stage = 2
    /\ fnOut' = [fnOut EXCEPT
                   !.stage = 3,
                   !.entrypoint =
                       resolve_entrypoint(fnIn, fnOut.framework, fnOut.python_stack)]
    /\ UNCHANGED <<hashSeed, stateVars, lastCall, stages, fnIn>>

\* resolve_entrypoint handed the candidates' file paths, the List[str] its
\* signature declares, in place of the stack detector's dicts
AsPaths(stack_data) ==
    [stack_data EXCEPT !.entrypoint_candidates =
        [i \in 1..Len(stack_data.entrypoint_candidates) |->
            [kind |-> "str", file |-> stack_data.entrypoint_candidates[i].file,
             variable |-> NoneStr]]]

AnalyzeEntrypointPaths ==
    /\ fnOut.stage = 2
    /\ fnOut' = [fnOut EXCEPT
                   !.stage = 4,
                   !.entrypoint =
                       resolve_entrypoint(fnIn, fnOut.framework,
                                          AsPaths(fnOut.python_stack))]
    /\ UNCHANGED <<hashSeed, stateVars, lastCall, stages, fnIn>>

NextAnalyze ==
    \/ AnalyzeStack
    \/ AnalyzeFramework
    \/ AnalyzeEntrypoint
    \/ AnalyzeEntrypointPaths

SpecAnalyze == InitAnalyze /\ [][NextAnalyze]_vars

\* ----------------------------------------------------------------------
\* A session over a repository that stays as it is (fnIn)
\* ----------------------------------------------------------------------

InitEndToEnd ==
    /\ hashSeed \in HashSeeds
    /\ SessionIdle
    /\ fnIn \in Repos
    /\ fnOut = <<>>

RunAnalysisOnDisk == RunAnalysisOver({AnalysisPipeline(fnIn, hashSeed)})

NextEndToEnd ==
    \/ SetRepoPath
    \/ RunAnalysisOnDisk
    \/ EvaluateNextAction
    \/ SubmitClarificationAnswers
    \/ RunGeneration

SpecEndToEnd == InitEndToEnd /\ [][NextEndToEnd]_vars

\* ----------------------------------------------------------------------
\* A session over analyzers that may return any result of their result types
\* ----------------------------------------------------------------------

\* a candidate is a dict with the keys file and variable (kind "dict") or a
\* dict with the key file alone (kind "dict_file")
CandidateEntries ==
    { [kind |-> "dict",      file |-> "app/main.py", variable |-> "app"],
      [kind |-> "dict",      file |-> "a.py",        variable |-> "api"],
      [kind |-> "dict_file", file |-> "a.py",        variable |-> NoneStr] }

\* lists of at most n candidates, no file twice
CandidateLists(n) ==
    { cs \in UNION {[1..k -> CandidateEntries] : k \in 0..n} :
        \A i, j \in 1..Len(cs) : i # j => cs[i].file # cs[j].file }

SessionStacks ==
    { [ is_python_project |-> TRUE, confidence |-> sd[1], dependency_management |-> sd[2],
        entrypoint_candidates |-> cs, notes |-> <<>> ] :
        sd \in {<<"high", "requirements.txt">>, <<"medium", NoneStr>>},
        cs \in CandidateLists(MaxCandidates) }

SessionFrameworks ==
    { [FrameworkDefault EXCEPT !.framework = "fastapi", !.interface = "ASGI",
                               !.runtime_server = "uvicorn", !.default_port = 8000,
                               !.confidence = "high"],
      [FrameworkDefault EXCEPT !.framework = "fastapi", !.interface = "ASGI",
                               !.default_port = 8000, !.confidence = "medium"],
      [FrameworkDefault EXCEPT !.notes =
          <<Note("No known Python web framework imports detected.", <<>>)>>] }

SessionEntrypoints ==
    { ServiceCommand("ASGI", "app/main.py"),
      [EntrypointDefault EXCEPT !.notes = <<"No resolvable execution entrypoint found.">>] }

SessionSnapshots ==
    [ repository : {MissingOutput.repository}, python_stack : SessionStacks,
      framework : SessionFrameworks, entrypoint : SessionEntrypoints ]

\* a fresh session, or a session in which run_analysis has just completed
\* with the snapshot ao
InitSession ==
    /\ hashSeed = 1
    /\ fnIn = <<>>
    /\ fnOut = <<>>
    /\ clarifications_required = FALSE
    /\ pending_questions = <<>>
    /\ answered_questions = <<>>
    /\ generation_requested = FALSE
    /\ generation_completed = FALSE
    /\ generator_result = <<>>
    /\ generation_error = NoneStr
    /\ \/ /\ repo_path = NoneStr
          /\ analysis_completed = FALSE
          /\ analysis_confidence = NoneStr
          /\ analyzer_output = <<>>
          /\ lastCall = Returned("__init__")
          /\ stages = <<>>
       \/ \E ao \in SessionSnapshots :
          /\ repo_path = "Path"
          /\ analysis_completed = TRUE
          /\ analysis_confidence = lowest_confidence(<<ao.python_stack.confidence,
                                                       ao.framework.confidence,
                                                       ao.entrypoint.confidence>>)
          /\ analyzer_output = <<ao>>
          /\ lastCall = Returned("run_analysis")
          /\ stages = AnalyzerStages

\* a caller asks the builder for the questions of the stored snapshot
BuildQuestions ==
    /\ fnOut' = <<build_clarification_questions(OrEmpty(analyzer_output))>>
    /\ UNCHANGED <<hashSeed, stateVars, lastCall, stages, fnIn>>

NextSession ==
    \/ EvaluateNextAction
    \/ SubmitClarificationAnswers
    \/ RunGeneration
    \/ BuildQuestions

SpecSession == InitSession /\ [][NextSession]_vars

\* ----------------------------------------------------------------------
\* The safety gate and the generators as pure functions of their input
\* ----------------------------------------------------------------------

GateStacks ==
    [ is_python_project : BOOLEAN, confidence : {"medium", "high"},
      dependency_management : {NoneStr, "requirements.txt"},
      entrypoint_candidates : {<<>>}, notes : {<<>>} ]

GateFrameworks ==
    [ framework : {NoneStr, "fastapi", "flask"}, interface : {NoneStr, "ASGI", "WSGI"},
      runtime_server : {NoneStr}, default_port : {8000},
      confidence : {"low", "high"}, notes : {<<>>} ]

GateEntrypoints ==
    [ type : {NoneStr}, confidence : {"low", "high"}, notes : {<<>>},
      command : { <<>>, << <<>> >>,
                  << <<Tok("uvicorn"), <<"app.main", ":", "app">>,
                       Tok("--host"), Tok("0.0.0.0")>> >> } ]

GateOutputs ==
    [ repository : {MissingOutput.repository}, python_stack : GateStacks,
      framework : GateFrameworks, entrypoint : GateEntrypoints ]

\* None, or a dict
GateAnswers == {<<>>} \cup {<<d>> : d \in AnswerMaps(MaxGateAnswers)}

NoResult == GeneratorResult(<<>>, NoneStr, <<>>, FALSE, <<>>)

InitGate ==
    /\ hashSeed = 1
    /\ SessionIdle
    /\ fnIn \in [ao : GateOutputs, answers : GateAnswers]
    /\ fnOut = [fn |-> NoneStr, verdict |-> [allowed |-> FALSE, reasons |-> <<>>],
                result |-> NoResult, report |-> <<>>]

GateEvaluate ==
    /\ fnOut.fn = NoneStr
    /\ fnOut' = [fnOut EXCEPT
                   !.fn = "evaluate_generation_safety",
                   !.verdict = evaluate_generation_safety(fnIn.ao, fnIn.answers)]
    /\ UNCHANGED <<hashSeed, stateVars, lastCall, stages, fnIn>>

GateFastAPIGenerate ==
    /\ fnOut.fn = NoneStr
    /\ fnOut' = [fnOut EXCEPT
                   !.fn = "FastAPIDockerfileGenerator.generate",
                   !.result = FastAPI_generate(fnIn.ao, fnIn.answers)]
    /\ UNCHANGED <<hashSeed, stateVars, lastCall, stages, fnIn>>

GateBaseGenerate ==
    /\ fnOut.fn = NoneStr
    /\ fnOut' = [fnOut EXCEPT
                   !.fn = "BaseDockerfileGenerator.generate",
                   !.result = Base_generate(fnIn.ao, fnIn.answers)]
    /\ UNCHANGED <<hashSeed, stateVars, lastCall, stages, fnIn>>

\* DockerfileReviewer().review on the text a generator returned
GateReview ==
    /\ fnOut.fn = "FastAPIDockerfileGenerator.generate"
    /\ fnOut.result.dockerfile # <<>>
    /\ fnOut.report = <<>>
    /\ fnOut' = [fnOut EXCEPT !.report = <<review(fnOut.result.dockerfile[1])>>]
    /\ UNCHANGED <<hashSeed, stateVars, lastCall, stages, fnIn>>

NextGate ==
    \/ GateEvaluate
    \/ GateFastAPIGenerate
    \/ GateBaseGenerate
    \/ GateReview

SpecGate == InitGate /\ [][NextGate]_vars

\* ----------------------------------------------------------------------
\* Claims about the safety gate and the generators (SpecGate)
\* ----------------------------------------------------------------------

\* the ten preconditions of the checklist, as the design states them
Met(k, ao, answers) ==
    CASE k = 1  -> ao.python_stack.is_python_project
      [] k = 2  -> ao.python_stack.confidence = "high"
      [] k = 3  -> ao.python_stack.dependency_management \notin {NoneStr, ""}
      [] k = 4  -> ao.framework.confidence = "high"
      [] k = 5  -> ao.framework.framework \notin {NoneStr, ""}
      [] k = 6  -> ao.framework.interface \notin {NoneStr, ""}
      [] k = 7  -> ao.entrypoint.confidence = "high"
      [] k = 8  -> \E tokens \in Range(ao.entrypoint.command) : Len(tokens) > 0
      [] k = 9  -> answers # <<>>
      [] OTHER  -> \A d \in Range(answers) : \A i \in 1..Len(d) : d[i].value # ""

Unmet(ks, ao, answers) == {k \in ks : ~Met(k, ao, answers)}

\* the reason the gate gives for each of the first nine preconditions
ReasonFor ==
    << Reason("Repository is not a confirmed Python project."),
       Reason("Python stack confidence is not high."),
       Reason("Python dependency management is unknown."),
       Reason("Framework detection confidence is not high."),
       Reason("Application framework is not detected."),
       Reason("Application interface (ASGI/WSGI) is not detected."),
       Reason("Entrypoint resolution confidence is not high."),
       Reason("Entrypoint command is missing."),
       Reason("Clarification answers missing.") >>

\* position of a reason in the checklist; the per-answer reasons come last
ChecklistRank(reason) ==
    IF \E k \in 1..9 : ReasonFor[k] = reason
    THEN CHOOSE k \in 1..9 : ReasonFor[k] = reason
    ELSE 10

EmptyAnswerKeys(answers) ==
    LET given == IF answers = <<>> THEN <<>> ELSE answers[1]
    IN  {given[i].key : i \in {j \in 1..Len(given) : given[j].value = ""}}

GateRan == fnOut.fn = "evaluate_generation_safety"

\* C2 (as claimed): the gate gives exactly one reason per unmet precondition
\* of the ten, so the number of reasons is the number of unmet preconditions,
\* and allowed holds iff there is no reason.
C2_OneReasonPerPrecondition ==
    GateRan =>
        /\ Len(fnOut.verdict.reasons) = Cardinality(Unmet(1..10, fnIn.ao, fnIn.answers))
        /\ fnOut.verdict.allowed <=> (fnOut.verdict.reasons = <<>>)

\* C2 (amended): the gate never short-circuits: each unmet precondition among
\* the first nine has exactly one reason, each answer with an empty value has
\* one reason of its own, the reasons are in checklist order, nothing else is
\* listed, and allowed holds iff there is no reason.
C2_GateExhaustive ==
    GateRan =>
        LET reasons == fnOut.verdict.reasons
            unmet   == Unmet(1..9, fnIn.ao, fnIn.answers)
            empties == EmptyAnswerKeys(fnIn.answers)
        IN  /\ \A k \in 1..9 :
                  Cardinality({i \in 1..Len(reasons) : reasons[i] = ReasonFor[k]})
                    = IF k \in unmet THEN 1 ELSE 0
            /\ \A key \in AnswerKeys :
                  Cardinality({i \in 1..Len(reasons) : reasons[i] = NoAnswerReason(key)})
                    = IF key \in empties THEN 1 ELSE 0
            /\ Len(reasons) = Cardinality(unmet) + Cardinality(empties)
            /\ \A i, j \in 1..Len(reasons) :
                  i < j => ChecklistRank(reasons[i]) <= ChecklistRank(reasons[j])
            /\ fnOut.verdict.allowed <=> (reasons = <<>>)

\* three of the first nine preconditions fail, and two answers are empty too
C2_Witness ==
    /\ GateRan
    /\ Cardinality(Unmet(1..9, fnIn.ao, fnIn.answers)) = 3
    /\ Cardinality(EmptyAnswerKeys(fnIn.answers)) = 2
    /\ Len(fnOut.verdict.reasons) = 5
    /\ ~fnOut.verdict.allowed

\* C10 (as claimed): every result of a generator's generate operation carries
\* the artifact text iff it is not a refusal.
C10_TextIffNotRefused ==
    fnOut.fn \in {"FastAPIDockerfileGenerator.generate",
                  "BaseDockerfileGenerator.generate"} =>
        ((fnOut.result.dockerfile # <<>>) <=> ~fnOut.result.refused)

\* ----------------------------------------------------------------------
\* Claims about the analyzers (SpecAnalyze)
\* ----------------------------------------------------------------------

PyFiles(r) == {p \in Present(r) : Catalogue[p].suffix = ".py"}

Manifests(r) == {p \in Present(r) : Catalogue[p].path \in Range(PYTHON_DEP_FILES)}

\* a file with the guard the design means: a conditional comparing __name__
\* with "__main__"
QualifyingGuard(r, file) ==
    LET c == Content(r, PathId(file)) IN c.parses /\ c.guard = "standard"

GuardedCandidates(r, cands) ==
    {i \in 1..Len(cands) : QualifyingGuard(r, cands[i].file)}

\* C6 (as claimed): on a stack profile the Stack Profiler produced, when
\* some candidate file holds a qualifying main guard the resolver returns
\* model script, confidence high and the command [python, <file of the first
\* such candidate>], whatever app objects exist.
C6_ScriptPrecedence ==
    LET cands   == fnOut.python_stack.entrypoint_candidates
        guarded == GuardedCandidates(fnIn, cands)
        first   == CHOOSE i \in guarded : \A j \in guarded : i <= j
    IN  (fnOut.stage = 3 /\ guarded # {}) =>
            /\ fnOut.entrypoint.exc = NoneStr
            /\ fnOut.entrypoint.value.type = "script"
            /\ fnOut.entrypoint.value.confidence = "high"
            /\ fnOut.entrypoint.value.command =
                  << <<Tok("python"), Tok(cands[first].file)>> >>

\* the distinct framework import signals present anywhere in the repository
FrameworkSignals(r) == UNION {Content(r, p).fw : p \in PyFiles(r)}

RuntimeSignals(r) == UNION {Content(r, p).rt : p \in PyFiles(r)}

\* C7: when more than one distinct framework import signal is present in the
\* repository, detect_framework returns framework none, no interface family,
\* no default port, a confidence below high and a "manual review required"
\* note, whatever runtime-server signals and entrypoint candidates exist.
C7_AmbiguousFrameworkRefused ==
    (fnOut.stage >= 2 /\ Cardinality(FrameworkSignals(fnIn)) > 1) =>
        /\ fnOut.framework.framework = NoneStr
        /\ fnOut.framework.interface = NoneStr
        /\ fnOut.framework.default_port = 0
        /\ fnOut.framework.runtime_server = NoneStr
        /\ fnOut.framework.confidence \in {"low", "medium"}
        /\ \E i \in 1..Len(fnOut.framework.notes) :
              fnOut.framework.notes[i].text =
                  "Multiple frameworks detected. Manual review required."

\* two frameworks in different files, one runtime server, an app candidate
C7_Witness ==
    /\ fnOut.stage >= 2
    /\ Cardinality(FrameworkSignals(fnIn)) = 2
    /\ \E p \in PyFiles(fnIn) : Cardinality(Content(fnIn, p).fw) = 1
    /\ Cardinality(RuntimeSignals(fnIn)) = 1
    /\ fnOut.python_stack.entrypoint_candidates # <<>>
    /\ fnOut.framework.framework = NoneStr

\* the analyzers' results on repository r in a process whose hash seed is seed
StackUnder(r, seed) == detect_python_stack(r, scan_repository(r), seed)

FrameworkUnder(r, seed) ==
    detect_framework(r, scan_repository(r), StackUnder(r, seed), seed)

\* C12 (as claimed): whatever run produced the stack and framework profiles
\* of a repository, any other run over the same scan result and file
\* contents (in a process with any hash seed) produces the same profiles:
\* the same recorded manifest and the same diagnostic notes.
C12_Deterministic ==
    \A seed \in HashSeeds :
        /\ fnOut.stage >= 1 => StackUnder(fnIn, seed) = fnOut.python_stack
        /\ fnOut.stage >= 2 => FrameworkUnder(fnIn, seed) = fnOut.framework

MissingManifestNote ==
    "No standard Python dependency file found (requirements.txt / pyproject.toml)."

StackProfiled == fnOut.stage >= 1 /\ PyFiles(fnIn) # {}

\* C14 (as claimed): on a repository with a .py file the stack confidence is
\* high if a recognised manifest is found and medium, with a diagnostic note,
\* if none is found, whether or not entrypoint candidates were found.
C14_ManifestDecidesConfidence ==
    StackProfiled =>
        /\ Manifests(fnIn) # {} => fnOut.python_stack.confidence = "high"
        /\ Manifests(fnIn) = {} =>
              /\ fnOut.python_stack.confidence = "medium"
              /\ MissingManifestNote \in Range(fnOut.python_stack.notes)

\* C14 (amended): on a repository with a .py file the stack confidence is
\* high if a recognised manifest is found or at least one entrypoint
\* candidate is found, and medium if neither is; a missing manifest leaves a
\* diagnostic note (and no recorded manifest) in either case.
C14_ManifestOrCandidates ==
    StackProfiled =>
        LET found == Manifests(fnIn) # {}
            cands == fnOut.python_stack.entrypoint_candidates # <<>>
        IN  /\ fnOut.python_stack.is_python_project
            /\ fnOut.python_stack.confidence =
                  IF found \/ cands THEN "high" ELSE "medium"
            /\ found <=> fnOut.python_stack.dependency_management # NoneStr
            /\ ~found <=> MissingManifestNote \in Range(fnOut.python_stack.notes)

\* no manifest, one candidate: the confidence is high and the note is kept
C14_Witness ==
    /\ StackProfiled
    /\ Manifests(fnIn) = {}
    /\ Len(fnOut.python_stack.entrypoint_candidates) = 1
    /\ fnOut.python_stack.confidence = "high"
    /\ MissingManifestNote \in Range(fnOut.python_stack.notes)

\* str.lower() on the variable names that occur in the modelled files
Lower(name) == IF name = "APP" THEN "app" ELSE name

\* the variables a candidate's file binds to a call of the framework
\* constructor and whose name is "app" up to case, in binding order
AppBindings(r, file) ==
    LET c == Content(r, PathId(file))
    IN  IF c.parses THEN SelectSeq(c.binds, LAMBDA v : Lower(v) = "app") ELSE <<>>

MatchingCandidates(r, cands) ==
    {i \in 1..Len(cands) : AppBindings(r, cands[i].file) # <<>>}

\* resolve_entrypoint was called with the candidates' paths and its script
\* phase had no guard to find
ServicePhaseRan ==
    /\ fnOut.stage = 4
    /\ \A i \in 1..Len(fnOut.python_stack.entrypoint_candidates) :
          Content(fnIn, PathId(fnOut.python_stack.entrypoint_candidates[i].file)).guard
              = "none"

\* C17 (as claimed): in the service phase a candidate matches only if its
\* file binds a variable named "app" (case-insensitively) to a call of the
\* framework constructor; with framework and interface family identified and
\* a match, the command holds "<module path>:<that variable>" of the first
\* match; with framework or interface family missing, or no match, the
\* result is unresolved with low confidence and no command.
C17_ServicePhase ==
    ServicePhaseRan =>
        LET cands   == fnOut.python_stack.entrypoint_candidates
            matches == MatchingCandidates(fnIn, cands)
            first   == CHOOSE i \in matches : \A j \in matches : i <= j
            result  == fnOut.entrypoint.value
        IN  /\ fnOut.entrypoint.exc = NoneStr
            /\ IF /\ fnOut.framework.framework # NoneStr
                  /\ fnOut.framework.interface # NoneStr
                  /\ matches # {}
               THEN /\ result.type \in {"asgi_service", "wsgi_service"}
                    /\ result.confidence = "high"
                    /\ \E command \in Range(result.command) :
                          << Catalogue[PathId(cands[first].file)].module, ":",
                             AppBindings(fnIn, cands[first].file)[1] >> \in Range(command)
               ELSE /\ result.type = NoneStr
                    /\ result.confidence = "low"
                    /\ ~TruthyList(result.command)

\* ----------------------------------------------------------------------
\* Claims about the session state machine (Spec)
\* ----------------------------------------------------------------------

\* the design's total order low < medium < high
TierOf(c) == CASE c = "low" -> 1 [] c = "medium" -> 2 [] c = "high" -> 3

Snapshot == OrEmpty(analyzer_output)

SnapshotConfidences ==
    { Snapshot.python_stack.confidence, Snapshot.framework.confidence,
      Snapshot.entrypoint.confidence }

WeakestOfSnapshot ==
    CHOOSE c \in SnapshotConfidences : \A d \in SnapshotConfidences : TierOf(c) <= TierOf(d)

AggregateIsMin == analysis_completed => analysis_confidence = WeakestOfSnapshot

CallOf(op) == lastCall'.op = op

CompletedAnalysis == CallOf("run_analysis") /\ lastCall'.exc = NoneStr

C3_GenerationIllegalState ==
    [][ (CallOf("run_generation")
           /\ (~analysis_completed \/ analysis_confidence # "high"))
        => /\ lastCall'.exc = "RuntimeError"
           /\ lastCall'.status = NoneStr
           /\ UNCHANGED stateVars ]_vars

\* run_generation was rejected after a completed, low-confidence analysis
C3_Witness ==
    /\ lastCall.op = "run_generation"
    /\ lastCall.exc = "RuntimeError"
    /\ analysis_completed
    /\ analysis_confidence = "low"
    /\ ~generation_requested /\ ~generation_completed /\ generator_result = <<>>

\* C4 (as claimed): submit_clarification_answers called while no question is
\* pending raises an error.
C4_SubmitWithoutQuestionFails ==
    [][ (CallOf("submit_clarification_answers") /\ pending_questions = <<>>)
        => lastCall'.exc # NoneStr ]_vars

Attempted == analysis_completed /\ analysis_confidence = "high" /\ generation_requested

AnalysisJustReturned == lastCall.op = "run_analysis" /\ lastCall.exc = NoneStr

NoPythonExtension == ".py" \notin DOMAIN Snapshot.repository.file_extensions

\* C8 (as claimed): an analysis run over a repository without a .py file
\* yields is_python_project false with low confidence and does not invoke
\* the framework detector or the entrypoint resolver.
C8_LaterStagesNotInvoked ==
    (AnalysisJustReturned /\ NoPythonExtension) =>
        /\ ~Snapshot.python_stack.is_python_project
        /\ Snapshot.python_stack.confidence = "low"
        /\ "detect_framework" \notin Range(stages)
        /\ "resolve_entrypoint" \notin Range(stages)

\* C8 (amended): an analysis run over a repository without a .py file yields
\* is_python_project false with low confidence; the framework detector and
\* the entrypoint resolver are still invoked, and return no evidence: no
\* framework with low confidence and the note "Not a Python project.", an
\* unresolved entrypoint with low confidence and no command.
C8_LaterStagesReturnNothing ==
    (AnalysisJustReturned /\ NoPythonExtension) =>
        /\ ~Snapshot.python_stack.is_python_project
        /\ Snapshot.python_stack.confidence = "low"
        /\ Snapshot.python_stack.entrypoint_candidates = <<>>
        /\ {"detect_framework", "resolve_entrypoint"} \subseteq Range(stages)
        /\ Snapshot.framework.framework = NoneStr
        /\ Snapshot.framework.interface = NoneStr
        /\ Snapshot.framework.confidence = "low"
        /\ Snapshot.framework.notes = <<Note("Not a Python project.", <<>>)>>
        /\ Snapshot.entrypoint.type = NoneStr
        /\ Snapshot.entrypoint.command = <<>>
        /\ Snapshot.entrypoint.confidence = "low"

\* an analysis run returned on a repository holding files, none of them .py
C8_Witness ==
    /\ AnalysisJustReturned
    /\ NoPythonExtension
    /\ Snapshot.repository.total_files > 0
    /\ analysis_confidence = "low"

\* C9 (as claimed): a refusal returned by run_generation carries a non-empty
\* reason that lists every unmet safety-gate precondition of the current
\* snapshot and answers.
C9_RefusalListsEveryReason ==
    (lastCall.op = "run_generation" /\ lastCall.status = "refused") =>
        /\ lastCall.reason # <<>>
        /\ \A k \in Unmet(1..9, Snapshot, <<answered_questions>>) :
              ReasonFor[k] \in Range(lastCall.reason)
        /\ \A key \in EmptyAnswerKeys(<<answered_questions>>) :
              NoAnswerReason(key) \in Range(lastCall.reason)

\* ----------------------------------------------------------------------
\* Claims about a session over an unchanged repository (SpecEndToEnd)
\* ----------------------------------------------------------------------

\* the one file binds a FastAPI app object and imports the framework and its
\* runtime server, and holds no main guard
ServiceFile(r, p) ==
    LET c == Content(r, p)
    IN  /\ c.parses
        /\ c.fw = {"fastapi"}
        /\ c.rt = {"uvicorn"}
        /\ c.binds # <<>>
        /\ c.guard = "none"

EndToEndRepo(r) ==
    /\ Manifests(r) # {}
    /\ Cardinality(PyFiles(r)) = 1
    /\ \A p \in PyFiles(r) : ServiceFile(r, p)

\* "<module path>:<symbol>" of the repository's one Python file
QualifiedReference(r) ==
    LET p == CHOOSE q \in PyFiles(r) : TRUE
    IN  <<Catalogue[p].module, ":", Content(r, p).binds[1]>>

NonRootWarning ==
    Issue("warning", "Container runs as root. Consider adding a non-root USER for security.")

\* C11 (as claimed): on a repository with a manifest and one file that binds
\* a framework app object and imports the framework and its runtime server,
\* with no main guard: evaluate_next_action before the analysis returns
\* NEEDS_ANALYSIS; run_analysis returns a snapshot with framework confidence
\* high, an interface family, a service entrypoint whose command holds
\* "<module path>:<symbol>", and stores aggregate high; evaluate_next_action
\* then returns READY_FOR_GENERATION; run_generation then returns a generated
\* artifact whose review passes with at most the non-root-user warning.
C11_EndToEnd ==
    [][ (EndToEndRepo(fnIn) /\ repo_path = "Path") =>
          /\ (CallOf("evaluate_next_action") /\ ~analysis_completed)
                => lastCall'.label = "NEEDS_ANALYSIS"
          /\ CallOf("run_analysis") =>
                /\ lastCall'.exc = NoneStr
                /\ analysis_completed'
                /\ Snapshot'.framework.confidence = "high"
                /\ Snapshot'.framework.interface # NoneStr
                /\ Snapshot'.entrypoint.type \in {"asgi_service", "wsgi_service"}
                /\ \E command \in Range(Snapshot'.entrypoint.command) :
                      QualifiedReference(fnIn) \in Range(command)
                /\ analysis_confidence' = "high"
          /\ (CallOf("evaluate_next_action") /\ analysis_completed
                /\ ~generation_requested)
                => lastCall'.label = "READY_FOR_GENERATION"
          /\ (CallOf("run_generation") /\ analysis_completed) =>
                /\ lastCall'.status = "generated"
                /\ lastCall'.dockerfile # <<>>
                /\ generator_result' # <<>>
                /\ ~generator_result'[1].refused
                /\ review(lastCall'.dockerfile[1]).passed
                /\ Range(review(lastCall'.dockerfile[1]).summary.warnings)
                      \subseteq {NonRootWarning} ]_vars

\* ----------------------------------------------------------------------
\* Claims about the orchestrator's operations on any snapshot (SpecSession)
\* ----------------------------------------------------------------------

\* the candidates of a snapshot that carry both a file and a bound symbol,
\* rendered "<file>:<symbol>", in candidate order
RECURSIVE Rendered(_)
Rendered(cands) ==
    IF cands = <<>> THEN <<>>
    ELSE (IF Head(cands).kind = "dict"
          THEN << <<Head(cands).file, ":", Head(cands).variable>> >>
          ELSE <<>>) \o Rendered(Tail(cands))

OfferedOptions(ao) == Rendered(ao.python_stack.entrypoint_candidates)

\* the label of the design's decision table in the current state
TableLabel ==
    IF ~analysis_completed THEN "NEEDS_ANALYSIS"
    ELSE IF analysis_confidence # "high"
    THEN (IF Snapshot.entrypoint.confidence # "high" /\ OfferedOptions(Snapshot) # <<>>
          THEN "NEEDS_CLARIFICATION" ELSE "REFUSED")
    ELSE IF ~generation_requested THEN "READY_FOR_GENERATION"
    ELSE "DONE"

\* C13: every evaluate_next_action call returns the label of the decision
\* table: NEEDS_ANALYSIS while analysis has not completed; else, below high
\* aggregate confidence, NEEDS_CLARIFICATION with the freshly built question
\* stored as pending when there is one to ask and REFUSED when there is none;
\* else READY_FOR_GENERATION until generation is requested, then DONE. Only
\* NEEDS_CLARIFICATION changes the session state.
C13_DecisionTable ==
    [][ CallOf("evaluate_next_action") =>
          /\ lastCall'.exc = NoneStr
          /\ lastCall'.label = TableLabel
          /\ IF TableLabel = "NEEDS_CLARIFICATION"
             THEN /\ Len(pending_questions') = 1
                  /\ pending_questions'[1].id = "entrypoint_selection"
                  /\ pending_questions'[1].options = OfferedOptions(Snapshot)
                  /\ clarifications_required'
                  /\ UNCHANGED <<repo_path, analysis_completed, analysis_confidence,
                                 analyzer_output, answered_questions,
                                 generation_requested, generation_completed,
                                 generator_result, generation_error>>
             ELSE UNCHANGED stateVars ]_vars

\* a question was asked and stored, on a snapshot with two candidates of
\* which one carries no bound symbol
C13_Witness ==
    /\ lastCall.op = "evaluate_next_action"
    /\ lastCall.label = "NEEDS_CLARIFICATION"
    /\ Len(Snapshot.python_stack.entrypoint_candidates) = 2
    /\ Len(pending_questions) = 1
    /\ Len(pending_questions[1].options) = 1

\* C16: build_clarification_questions returns at most one question; it
\* returns one exactly when the snapshot's entrypoint confidence is not high
\* and some candidate carries both a file and a bound symbol, and then the
\* options are exactly those candidates as "<file>:<symbol>" in candidate
\* order; the call leaves the snapshot and the rest of the session as they are.
C16_AtMostOneQuestion ==
    [][ fnOut' # fnOut =>
          LET questions == fnOut'[1]
              asks == /\ Snapshot.entrypoint.confidence # "high"
                      /\ OfferedOptions(Snapshot) # <<>>
          IN  /\ Len(questions) <= 1
              /\ (Len(questions) = 1) <=> asks
              /\ asks => questions[1].options = OfferedOptions(Snapshot)
              /\ UNCHANGED stateVars ]_vars

\* one question was built from a snapshot whose candidates are a file-only
\* candidate followed by one with a bound symbol
C16_Witness ==
    /\ fnOut # <<>>
    /\ Len(fnOut[1]) = 1
    /\ Len(Snapshot.python_stack.entrypoint_candidates) = 2
    /\ Snapshot.python_stack.entrypoint_candidates[1].kind = "dict_file"
    /\ fnOut[1][1].options = << <<"app/main.py", ":", "app">> >>

\* the answer recorded under key k in the map d
ValueOf(d, k) == d[CHOOSE i \in 1..Len(d) : d[i].key = k].value

\* new is old with the entries of given merged in
MergedInto(old, given, new) ==
    /\ Keys(new) = Keys(old) \cup Keys(given)
    /\ \A i, j \in 1..Len(new) : i # j => new[i].key # new[j].key
    /\ \A k \in Keys(given) : ValueOf(new, k) = ValueOf(given, k)
    /\ \A k \in Keys(old) \ Keys(given) : ValueOf(new, k) = ValueOf(old, k)

PendingIds == {pending_questions[i].id : i \in 1..Len(pending_questions)}

\* C15: submit_clarification_answers returns normally and merges the given
\* answers into the answered map; if every pending question id then has a
\* recorded answer it clears the pending questions and sets the aggregate
\* confidence to high, otherwise it leaves the pending questions and the
\* aggregate confidence as they were; the analyzer snapshot and the other
\* session fields are never changed.
C15_SubmitSemantics ==
    [][ CallOf("submit_clarification_answers") =>
          /\ lastCall'.exc = NoneStr
          /\ \E given \in AnswerMaps(MaxAnswers) :
                MergedInto(answered_questions, given, answered_questions')
          /\ IF PendingIds \subseteq Keys(answered_questions')
             THEN /\ pending_questions' = <<>>
                  /\ analysis_confidence' = "high"
             ELSE UNCHANGED <<pending_questions, analysis_confidence,
                              clarifications_required>>
          /\ UNCHANGED <<analyzer_output, repo_path, analysis_completed,
                         generation_requested, generation_completed,
                         generator_result, generation_error>> ]_vars

\* an answer to some other id was submitted: the question is still pending
\* and the aggregate confidence is still below high
C15_Witness ==
    /\ lastCall.op = "submit_clarification_answers"
    /\ answered_questions # <<>>
    /\ PendingIds # {}
    /\ ~(PendingIds \subseteq Keys(answered_questions))
    /\ analysis_confidence # "high"

GenerationReturned == lastCall.op = "run_generation" /\ lastCall.exc = NoneStr

\* C19: run_generation returns 'generated' only when the stored snapshot and
\* answers satisfy every precondition of the safety gate; when the snapshot
\* holds a stack, framework or entrypoint confidence below high, a
\* run_generation call that returns (the aggregate having been forced to
\* high) returns 'refused', with no artifact.
C19_GeneratedOnlyIfGatePasses ==
    GenerationReturned =>
        /\ lastCall.status \in {"generated", "refused"}
        /\ lastCall.status = "generated" =>
              /\ Unmet(1..10, Snapshot, <<answered_questions>>) = {}
              /\ lastCall.dockerfile # <<>>
        /\ SnapshotConfidences # {"high"} =>
              /\ lastCall.status = "refused"
              /\ lastCall.dockerfile = <<>>

\* answers forced the aggregate to high over a snapshot whose framework
\* confidence is medium and that lacks nothing else; generation was refused
C19_Witness ==
    /\ GenerationReturned
    /\ analysis_confidence = "high"
    /\ Snapshot.framework.confidence = "medium"
    /\ Unmet(1..10, Snapshot, <<answered_questions>>) = {4}
    /\ lastCall.status = "refused"

\* ----------------------------------------------------------------------
\* Further claims about the session state machine (Spec)
\* ----------------------------------------------------------------------

\* C18 (as claimed): when evaluate_next_action has just returned REFUSED, a
\* submit_clarification_answers call (with any map) leaves the session
\* refused: evaluate_next_action would still return REFUSED, and
\* run_generation would still be rejected, the aggregate confidence being
\* below high.
C18_RefusedStable ==
    [][ (lastCall.op = "evaluate_next_action" /\ lastCall.label = "REFUSED"
            /\ CallOf("submit_clarification_answers"))
        => /\ TableLabel' = "REFUSED"
           /\ analysis_confidence' # "high" ]_vars

====
